---- MODULE Spec2Model ----
(***************************************************************************)
(* A model of the Shipi18n Next.js example: the API client of              *)
(* src/lib/shipi18n.js (configuration, request gateway, translation        *)
(* operations) and the client-side example page that calls it.             *)
(*                                                                         *)
(* An async function runs atomically up to the point where it awaits the   *)
(* transport (fetch); the transport settling and the continuation of the   *)
(* function up to its return or throw is the second step.                  *)
(***************************************************************************)
EXTENDS Naturals, Sequences, FiniteSets, TLC

VARIABLES
    env,         \* process.env: the four variables getConfig reads
    window,      \* TRUE iff typeof window !== 'undefined' (browser context)
    testConfig,  \* the module-level override of shipi18n.js
    lastCfgOp,   \* history: the most recent setConfig(arg) / resetConfig()
    got,         \* what the most recent getConfig() call returned
    call,        \* the library call in progress or last settled
    page,        \* React state of ClientSideExample
    proxy,       \* the POST handler of app/api/translate/route.js
    other        \* a second library call, running concurrently with `call`

vars == <<env, window, testConfig, lastCfgOp, got, call, page, proxy, other>>

----------------------------------------------------------------------------
(* JavaScript values, tagged by type.                                      *)

Undefined == [t |-> "undefined"]
Null == [t |-> "null"]
Str(s) == [t |-> "string", v |-> s]
Bool(b) == [t |-> "boolean", v |-> b]
Num(n) == [t |-> "number", v |-> n]
\* an array of strings (language codes), as a sequence
Arr(s) == [t |-> "array", v |-> s]
\* a plain object: a function from property names to values
Obj(f) == [t |-> "object", v |-> f]
\* a string holding the JSON serialisation of the value d
JsonText(d) == [t |-> "jsontext", v |-> d]

EmptyObj == Obj([k \in {} |-> Undefined])

\* ToBoolean
Truthy(x) ==
    CASE x.t = "undefined" -> FALSE
      [] x.t = "null" -> FALSE
      [] x.t = "string" -> x.v # ""
      [] x.t = "boolean" -> x.v
      [] x.t = "number" -> x.v # 0
      [] OTHER -> TRUE

\* a || b
Or(a, b) == IF Truthy(a) THEN a ELSE b

\* typeof x
TypeOf(x) ==
    CASE x.t \in {"string", "jsontext"} -> "string"
      [] x.t \in {"object", "array", "null"} -> "object"
      [] OTHER -> x.t

\* o.k for an object o: undefined when o has no such property
Prop(o, k) == IF o.t = "object" /\ k \in DOMAIN o.v THEN o.v[k] ELSE Undefined

\* { ...a, ...b } on the property maps of two objects
Spread(a, b) == b @@ a

\* a destructuring default: applies only to undefined
Default(x, d) == IF x = Undefined THEN d ELSE x

\* `${x}` for the values the model interpolates
ToStr(x) ==
    CASE x.t = "string" -> x.v
      [] x.t = "number" -> ToString(x.v)
      [] x.t = "null" -> "null"
      [] OTHER -> "undefined"

----------------------------------------------------------------------------
(* Configuration: shipi18n.js lines 8-44.                                  *)

DefaultApiUrl == "https://x9527l3blg.execute-api.us-east-1.amazonaws.com"

\* an environment variable is unset, empty, or set
EnvValues(s) == {Undefined, Str(""), Str(s)}

Envs ==
    [SHIPI18N_API_KEY : EnvValues("sk_server"),
     SHIPI18N_API_URL : EnvValues("https://server.example"),
     NEXT_PUBLIC_SHIPI18N_API_KEY : EnvValues("pk_public"),
     NEXT_PUBLIC_SHIPI18N_API_URL : EnvValues("https://public.example")]

\* the configuration objects setConfig is called with ({apiKey, apiUrl};
\* a property may be missing or empty)
Configs ==
    {Obj([apiKey |-> k, apiUrl |-> u]) :
        k \in {Str(""), Str("sk_test")},
        u \in {Undefined, Str("https://test.api.com")}}

\* getConfig with the browser falling back on the server's variables
getConfigFallsBack(tc, win, e) ==
    IF Truthy(tc) THEN tc
    ELSE IF ~win
    THEN Obj([apiKey |-> e.SHIPI18N_API_KEY,
              apiUrl |-> Or(e.SHIPI18N_API_URL, Str(DefaultApiUrl))])
    ELSE Obj([apiKey |-> Or(e.NEXT_PUBLIC_SHIPI18N_API_KEY, e.SHIPI18N_API_KEY),
              apiUrl |-> Or(e.NEXT_PUBLIC_SHIPI18N_API_URL,
                            Or(e.SHIPI18N_API_URL, Str(DefaultApiUrl)))])

\* getConfig without the default URL
getConfigNoDefault(tc, win, e) ==
    IF Truthy(tc) THEN tc
    ELSE IF ~win
    THEN Obj([apiKey |-> e.SHIPI18N_API_KEY, apiUrl |-> e.SHIPI18N_API_URL])
    ELSE Obj([apiKey |-> e.NEXT_PUBLIC_SHIPI18N_API_KEY,
              apiUrl |-> e.NEXT_PUBLIC_SHIPI18N_API_URL])

\* getConfig(), as a function of the override, the context and the environment
getConfig(tc, win, e) ==
    IF Truthy(tc) THEN tc
    ELSE IF ~win
    THEN Obj([apiKey |-> e.SHIPI18N_API_KEY,
              apiUrl |-> Or(e.SHIPI18N_API_URL, Str(DefaultApiUrl))])
    ELSE Obj([apiKey |-> e.NEXT_PUBLIC_SHIPI18N_API_KEY,
              apiUrl |-> Or(e.NEXT_PUBLIC_SHIPI18N_API_URL, Str(DefaultApiUrl))])

setConfig ==
    \E newConfig \in Configs :
        /\ testConfig' = newConfig
        /\ lastCfgOp' = [op |-> "setConfig", arg |-> newConfig]
        /\ UNCHANGED <<env, window, got, call, page, proxy, other>>

\* resetConfig leaving the override in place
resetConfigKeepsOverride ==
    /\ testConfig' = testConfig
    /\ lastCfgOp' = [op |-> "resetConfig"]
    /\ UNCHANGED <<env, window, got, call, page, proxy, other>>

resetConfig ==
    /\ testConfig' = Null
    /\ lastCfgOp' = [op |-> "resetConfig"]
    /\ UNCHANGED <<env, window, got, call, page, proxy, other>>

\* getConfig() keeping what it computed as the override
callGetConfigCaches ==
    /\ got' = getConfig(testConfig, window, env)
    /\ testConfig' = getConfig(testConfig, window, env)
    /\ UNCHANGED <<env, window, lastCfgOp, call, page, proxy, other>>

\* a call of getConfig() by a user of the library
callGetConfig ==
    /\ got' = getConfig(testConfig, window, env)
    /\ UNCHANGED <<env, window, testConfig, lastCfgOp, call, page, proxy, other>>

----------------------------------------------------------------------------
(* The transport (fetch) and what it answers.                              *)

\* a response body that is not valid JSON: response.json() rejects
Unparseable == [t |-> "unparseable"]

\* fetch rejecting, with the message of the error it rejects with
TransportError(message) == [kind |-> "error", message |-> message]
NetworkError == TransportError("fetch failed")
EmptyError == TransportError("")
HttpResponse(status, body) == [kind |-> "response", status |-> status, body |-> body]

\* response.ok
Ok(resp) == resp.status >= 200 /\ resp.status <= 299

Statuses == {200, 400, 401}

Bodies ==
    {Obj([es |-> Str("Hola")]),
     Obj([es |-> Str("Hola"), fr |-> Str("Bonjour"), warnings |-> Arr(<<"w">>)]),
     Obj([es |-> Null, fr |-> Str("Bonjour")]),
     Obj([message |-> Str("Invalid API key")]),
     EmptyObj, Null, Unparseable}

Responses == {NetworkError, EmptyError} \cup {HttpResponse(s, b) : s \in Statuses, b \in Bodies}

\* JSON.stringify: undefined has no serialisation, and a property whose
\* value is undefined is left out of the text
RECURSIVE ToJson(_)
ToJson(x) ==
    IF x.t = "object"
    THEN Obj([k \in {j \in DOMAIN x.v : x.v[j] # Undefined} |-> ToJson(x.v[k])])
    ELSE x

JSONStringify(x) == IF x = Undefined THEN Undefined ELSE JsonText(ToJson(x))

\* x?.length
OptLength(x) ==
    CASE x.t = "array" -> Num(Len(x.v))
      [] x.t = "string" -> Num(Len(x.v))
      [] OTHER -> Undefined

----------------------------------------------------------------------------
(* A library call: the part of the async function that runs before the     *)
(* transport is awaited yields the call's state; `cfg` is the              *)
(* configuration the call read (undefined when it read none), `fetches`    *)
(* the number of times it called fetch, `req` the arguments of that fetch, *)
(* and, once the transport has settled, `resp` what it answered.           *)

NoCall == [state |-> "none"]

Rejected(cfg, message) ==
    [state |-> "rejected", cfg |-> cfg, fetches |-> 0, req |-> Undefined,
     value |-> Str(message)]

Awaiting(cfg, url, init) ==
    [state |-> "pending", cfg |-> cfg, fetches |-> 1,
     req |-> [url |-> url, init |-> init], value |-> Undefined]

MissingKeyMessage ==
    "SHIPI18N_API_KEY is not set. Get your free key at https://shipi18n.com"
TextRequiredMessage == "Text is required"
TargetRequiredMessage == "At least one target language is required"

\* the headers object apiRequest passes to fetch
requestHeaders(apiKey, options) ==
    LET own == ("Content-Type" :> Str("application/json")) @@ ("X-API-Key" :> apiKey)
        given == Prop(options, "headers")
    IN  Obj(IF given.t = "object" THEN Spread(own, given.v) ELSE own)

\* apiRequest without its check of the key
apiRequestNoKeyCheck(endpoint, options, tc, win, e) ==
    LET cfg == getConfig(tc, win, e)
        apiKey == Prop(cfg, "apiKey")
        apiUrl == Prop(cfg, "apiUrl")
    IN  Awaiting(cfg,
                 Str(ToStr(apiUrl) \o "/api" \o ToStr(endpoint)),
                 Obj(Spread(options.v,
                            "headers" :> requestHeaders(apiKey, options))))

\* apiRequest(endpoint, options) up to `await fetch(...)`
apiRequest(endpoint, options, tc, win, e) ==
    LET cfg == getConfig(tc, win, e)
        apiKey == Prop(cfg, "apiKey")
        apiUrl == Prop(cfg, "apiUrl")
    IN  IF ~Truthy(apiKey)
        THEN Rejected(cfg, MissingKeyMessage)
        ELSE Awaiting(cfg,
                      Str(ToStr(apiUrl) \o "/api" \o ToStr(endpoint)),
                      Obj(Spread(options.v,
                                 "headers" :> requestHeaders(apiKey, options))))

\* the body with the defaults applied by || instead of by destructuring
translateBodyOrDefaults(text, a) ==
    [text |-> text,
     sourceLanguage |-> Or(a.sourceLanguage, Str("en")),
     targetLanguages |-> a.targetLanguages,
     preservePlaceholders |-> Or(a.preservePlaceholders, Bool(TRUE)),
     enablePluralization |-> Or(a.enablePluralization, Bool(TRUE))]

\* the body translate and translateJSON post
translateBody(text, a) ==
    [text |-> text,
     sourceLanguage |-> Default(a.sourceLanguage, Str("en")),
     targetLanguages |-> a.targetLanguages,
     preservePlaceholders |-> Default(a.preservePlaceholders, Bool(TRUE)),
     enablePluralization |-> Default(a.enablePluralization, Bool(TRUE))]

\* translate checking the API key before its input
translateKeyFirst(a, tc, win, e) ==
    LET cfg == getConfig(tc, win, e)
    IN  IF ~Truthy(Prop(cfg, "apiKey")) THEN Rejected(cfg, MissingKeyMessage)
        ELSE IF ~Truthy(a.text) THEN Rejected(Undefined, TextRequiredMessage)
        ELSE IF ~Truthy(OptLength(a.targetLanguages))
        THEN Rejected(Undefined, TargetRequiredMessage)
        ELSE apiRequest(Str("/translate"),
                        Obj([method |-> Str("POST"),
                             body |-> JSONStringify(Obj(translateBody(a.text, a)))]),
                        tc, win, e)

\* translate without its check of targetLanguages
translateNoLanguageCheck(a, tc, win, e) ==
    IF ~Truthy(a.text) THEN Rejected(Undefined, TextRequiredMessage)
    ELSE apiRequest(Str("/translate"),
                    Obj([method |-> Str("POST"),
                         body |-> JSONStringify(Obj(translateBody(a.text, a)))]),
                    tc, win, e)

\* translate({...}) up to `await fetch(...)`
translate(a, tc, win, e) ==
    IF ~Truthy(a.text) THEN Rejected(Undefined, TextRequiredMessage)
    ELSE IF ~Truthy(OptLength(a.targetLanguages))
    THEN Rejected(Undefined, TargetRequiredMessage)
    ELSE apiRequest(Str("/translate"),
                    Obj([method |-> Str("POST"),
                         body |-> JSONStringify(Obj(translateBody(a.text, a)))]),
                    tc, win, e)

\* translateJSON serialising its input even when it is a string
translateJSONAlwaysStringifies(a, tc, win, e) ==
    LET jsonString == JSONStringify(a.json)
    IN  apiRequest(Str("/translate"),
                   Obj([method |-> Str("POST"),
                        body |-> JSONStringify(Obj(
                            translateBody(jsonString, a)
                                @@ [outputFormat |-> Str("json")]))]),
                   tc, win, e)

\* translateJSON({...}) up to `await fetch(...)`
translateJSON(a, tc, win, e) ==
    LET jsonString == IF TypeOf(a.json) = "string" THEN a.json
                      ELSE JSONStringify(a.json)
    IN  apiRequest(Str("/translate"),
                   Obj([method |-> Str("POST"),
                        body |-> JSONStringify(Obj(
                            translateBody(jsonString, a)
                                @@ [outputFormat |-> Str("json")]))]),
                   tc, win, e)

\* translateLocaleFile({...}) up to `await fetch(...)`: its call of translateJSON
translateLocaleFile(a, tc, win, e) ==
    translateJSON([json |-> a.content,
                   sourceLanguage |-> Default(a.sourceLanguage, Str("en")),
                   targetLanguages |-> a.targetLanguages,
                   preservePlaceholders |-> Default(a.preservePlaceholders, Bool(TRUE)),
                   enablePluralization |-> Default(a.enablePluralization, Bool(TRUE))],
                  tc, win, e)

\* healthCheck() up to `await fetch(...)`
healthCheck(tc, win, e) ==
    LET cfg == getConfig(tc, win, e)
    IN  Awaiting(cfg, Str(ToStr(Prop(cfg, "apiUrl")) \o "/api/health"), Undefined)

----------------------------------------------------------------------------
(* The continuation of a call once the transport has settled: the outcome  *)
(* [state, value] the call's promise settles with.                         *)

Resolve(v) == [state |-> "resolved", value |-> v]
Reject(message) == [state |-> "rejected", value |-> Str(message)]

JsonSyntaxMessage == "Unexpected token in JSON"
NullPropertyMessage == "Cannot read properties of null"
NotIterableMessage == "targetLanguages is not iterable"

\* response.json()
responseJson(resp) ==
    IF resp.body = Unparseable THEN Reject(JsonSyntaxMessage) ELSE Resolve(resp.body)

\* apiRequest calling fetch again when the transport fails or the status is
\* not a success
apiRequestResumeRetries(resp) ==
    IF resp.kind = "error" \/ ~Ok(resp)
    THEN [state |-> "pending", value |-> Undefined, fetches |-> 2]
    ELSE responseJson(resp)

\* apiRequest from the settling of its fetch (lines 67-72)
apiRequestResume(resp) ==
    IF resp.kind = "error" THEN Reject(resp.message)
    ELSE IF ~Ok(resp)
    THEN LET errorData == IF resp.body = Unparseable THEN EmptyObj ELSE resp.body
         IN  IF errorData.t \in {"null", "undefined"}
             THEN Reject(NullPropertyMessage)
             ELSE Reject(ToStr(Or(Prop(errorData, "message"),
                                  Str("API error: " \o ToString(resp.status)))))
    ELSE responseJson(resp)

\* translateLocaleFile from the settling of translateJSON (lines 162-170)
translateLocaleFileResume(targetLanguages, resp) ==
    LET r == apiRequestResume(resp)
        result == r.value
    IN  IF r.state = "rejected" THEN r
        ELSE IF targetLanguages.t # "array" THEN Reject(NotIterableMessage)
        ELSE IF targetLanguages.v # <<>> /\ result.t \in {"null", "undefined"}
        THEN Reject(NullPropertyMessage)
        ELSE Resolve(Obj([lang \in {l \in {targetLanguages.v[i] :
                                              i \in DOMAIN targetLanguages.v} :
                                        Truthy(Prop(result, l))}
                            |-> Prop(result, lang)]))

\* healthCheck raising the API error for a non-success status
healthCheckResumeChecksStatus(resp) ==
    IF resp.kind = "error" THEN Reject(resp.message)
    ELSE IF ~Ok(resp) THEN Reject("API error: " \o ToString(resp.status))
    ELSE responseJson(resp)

\* healthCheck from the settling of its fetch (line 179)
healthCheckResume(resp) ==
    IF resp.kind = "error" THEN Reject(resp.message) ELSE responseJson(resp)

resume(c, resp) ==
    CASE c.op = "translateLocaleFile" ->
            translateLocaleFileResume(c.args.targetLanguages, resp)
      [] c.op = "healthCheck" -> healthCheckResume(resp)
      [] OTHER -> apiRequestResume(resp)

----------------------------------------------------------------------------
(* The arguments the operations are called with.                           *)

MaxLangs == 2

LangCodes == <<"es", "fr", "de">>

\* targetLanguages: missing, or a list of up to MaxLangs codes
TargetLanguageValues ==
    {Undefined} \cup {Arr(SubSeq(LangCodes, 1, n)) : n \in 0..MaxLangs}

TextValues == {Undefined, Str(""), Str("Hello")}

\* the optional parameters: all left out, or all given
OptionalValues ==
    {[sourceLanguage |-> Undefined, preservePlaceholders |-> Undefined,
      enablePluralization |-> Undefined],
     [sourceLanguage |-> Str("de"), preservePlaceholders |-> Bool(FALSE),
      enablePluralization |-> Bool(FALSE)]}

\* json / content: a structured value, or its serialisation as a string
JsonValues == {Obj([a |-> Num(1)]), JsonText(Obj([a |-> Num(1)]))}
ContentValues == {Obj([a |-> Num(1)])}

\* the options apiRequest is called with
OptionsValues ==
    {EmptyObj,
     Obj([method |-> Str("POST")]),
     Obj([method |-> Str("POST"),
          headers |-> Obj("X-API-Key" :> Str("caller_key"))]),
     Obj([method |-> Str("POST"),
          headers |-> Obj(("Content-Type" :> Str("text/plain"))
                          @@ ("X-Trace" :> Str("1")))])}

----------------------------------------------------------------------------
(* The library's operations as steps.                                      *)

Start(op, by, args, c) == [op |-> op, by |-> by, args |-> args] @@ c

callApiRequest ==
    /\ call.state # "pending"
    /\ \E options \in OptionsValues :
          call' = Start("apiRequest", "caller",
                        [endpoint |-> Str("/translate"), options |-> options],
                        apiRequest(Str("/translate"), options, testConfig, window, env))
    /\ UNCHANGED <<env, window, testConfig, lastCfgOp, got, page, proxy, other>>

callTranslate ==
    /\ call.state # "pending"
    /\ \E text \in TextValues, tl \in TargetLanguageValues, o \in OptionalValues :
          LET a == [text |-> text, targetLanguages |-> tl] @@ o
          IN  call' = Start("translate", "caller", a,
                            translate(a, testConfig, window, env))
    /\ UNCHANGED <<env, window, testConfig, lastCfgOp, got, page, proxy, other>>

callTranslateJSON ==
    /\ call.state # "pending"
    /\ \E json \in JsonValues, tl \in TargetLanguageValues, o \in OptionalValues :
          LET a == [json |-> json, targetLanguages |-> tl] @@ o
          IN  call' = Start("translateJSON", "caller", a,
                            translateJSON(a, testConfig, window, env))
    /\ UNCHANGED <<env, window, testConfig, lastCfgOp, got, page, proxy, other>>

callTranslateLocaleFile ==
    /\ call.state # "pending"
    /\ \E content \in ContentValues, tl \in TargetLanguageValues, o \in OptionalValues :
          LET a == [content |-> content, targetLanguages |-> tl] @@ o
          IN  call' = Start("translateLocaleFile", "caller", a,
                            translateLocaleFile(a, testConfig, window, env))
    /\ UNCHANGED <<env, window, testConfig, lastCfgOp, got, page, proxy, other>>

callHealthCheck ==
    /\ call.state # "pending"
    /\ call' = Start("healthCheck", "caller", <<>>,
                     healthCheck(testConfig, window, env))
    /\ UNCHANGED <<env, window, testConfig, lastCfgOp, got, page, proxy, other>>

\* getTranslations(locale, namespace): the placeholder returning {}
getTranslations ==
    [state |-> "resolved", cfg |-> Undefined, fetches |-> 0, req |-> Undefined,
     value |-> EmptyObj]

callGetTranslations ==
    /\ call.state # "pending"
    /\ \E locale \in {Str(LangCodes[i]) : i \in DOMAIN LangCodes} :
          call' = Start("getTranslations", "caller", [locale |-> locale],
                        getTranslations)
    /\ UNCHANGED <<env, window, testConfig, lastCfgOp, got, page, proxy, other>>

\* a call that reads the configuration again when its fetch settles
fetchSettlesRereadsConfig ==
    /\ call.state = "pending"
    /\ \E resp \in Responses :
          call' = [resp |-> resp, cfg |-> getConfig(testConfig, window, env)]
                  @@ resume(call, resp) @@ call
    /\ UNCHANGED <<env, window, testConfig, lastCfgOp, got, page, proxy, other>>

\* the transport settles the pending fetch and the call runs to its end
fetchSettles ==
    /\ call.state = "pending"
    /\ \E resp \in Responses :
          call' = [resp |-> resp] @@ resume(call, resp) @@ call
    /\ UNCHANGED <<env, window, testConfig, lastCfgOp, got, page, proxy, other>>

----------------------------------------------------------------------------
(* ClientSideExample (the 'use client' page of examples/client-side).      *)

InitialText == "Hello! Welcome to our application."

PageTexts == {"", "  ", InitialText}

\* text.trim() on the texts of the model
trim(s) == IF s \in {"", " ", "  "} THEN "" ELSE s

PageCodes == {"es", "fr", "de"}

InitPage ==
    [text |-> InitialText, selectedLanguages |-> <<"es", "fr">>,
     translations |-> Null, loading |-> FALSE, error |-> Null,
     awaiting |-> FALSE]

Includes(seq, x) == \E i \in DOMAIN seq : seq[i] = x

\* prev.filter(l => l !== code)
RECURSIVE Without(_, _)
Without(seq, x) ==
    IF seq = <<>> THEN <<>>
    ELSE IF Head(seq) = x THEN Without(Tail(seq), x)
    ELSE <<Head(seq)>> \o Without(Tail(seq), x)

\* onChange of the textarea
setText ==
    /\ window
    /\ \E value \in PageTexts : page' = [page EXCEPT !.text = value]
    /\ UNCHANGED <<env, window, testConfig, lastCfgOp, got, call, proxy, other>>

toggleLanguage ==
    /\ window
    /\ \E code \in PageCodes :
          page' = [page EXCEPT !.selectedLanguages =
                      IF Includes(@, code) THEN Without(@, code)
                      ELSE Append(@, code)]
    /\ UNCHANGED <<env, window, testConfig, lastCfgOp, got, call, proxy, other>>

\* handleTranslate up to `await translate(...)`
handleTranslate ==
    /\ window
    /\ ~page.awaiting
    /\ call.state # "pending"
    /\ IF trim(page.text) = ""
       THEN UNCHANGED <<page, call>>
       ELSE LET a == [text |-> Str(page.text),
                      targetLanguages |-> Arr(page.selectedLanguages),
                      sourceLanguage |-> Undefined,
                      preservePlaceholders |-> Bool(TRUE),
                      enablePluralization |-> Undefined]
            IN  /\ page' = [page EXCEPT !.loading = TRUE, !.error = Null,
                                        !.awaiting = TRUE]
                /\ call' = Start("translate", "ClientSideExample", a,
                                 translate(a, testConfig, window, env))
    /\ UNCHANGED <<env, window, testConfig, lastCfgOp, got, proxy, other>>

\* handleTranslate from the settling of translate: try / catch / finally
handleTranslateResume ==
    /\ page.awaiting
    /\ call.state \in {"resolved", "rejected"}
    /\ page' = [page EXCEPT
                  !.translations = IF call.state = "resolved" THEN call.value ELSE @,
                  !.error = IF call.state = "rejected" THEN call.value ELSE @,
                  !.loading = FALSE,
                  !.awaiting = FALSE]
    /\ UNCHANGED <<env, window, testConfig, lastCfgOp, got, call, proxy, other>>

----------------------------------------------------------------------------
(* The proxy route: POST of app/api/translate/route.js.                    *)

IdleProxy == [state |-> "idle"]

TranslationFailedMessage == "Translation failed"
DestructureMessage == "Cannot destructure property 'text' of null"

\* Response.json(body, { status })
Respond(status, body) == [kind |-> "response", status |-> status, body |-> ToJson(body)]

\* the handler calling a library operation and awaiting it
Dispatch(op, args) == [kind |-> "dispatch", op |-> op, args |-> args]

\* an exception leaving the handler
Escaped == [kind |-> "escaped"]

\* the catch block answering everything (lines 47-53) replaced by one that
\* hides the thrown message
caughtHidesMessage(message) ==
    Respond(500, Obj([error |-> Str(TranslationFailedMessage)]))

\* the catch block (lines 47-53), for a thrown error with the given message
caught(message) ==
    Respond(500, Obj([error |-> Or(message, Str(TranslationFailedMessage))]))

\* the dispatch taking every truthy outputFormat for "json"
POSTDispatchOnAnyFormat(text, targetLanguages, preservePlaceholders, outputFormat) ==
    IF Truthy(outputFormat)
    THEN Dispatch("translateJSON",
                  [json |-> text,
                   targetLanguages |-> targetLanguages,
                   preservePlaceholders |-> preservePlaceholders,
                   sourceLanguage |-> Undefined,
                   enablePluralization |-> Undefined])
    ELSE Dispatch("translate",
                  [text |-> text,
                   targetLanguages |-> targetLanguages,
                   preservePlaceholders |-> preservePlaceholders,
                   sourceLanguage |-> Undefined,
                   enablePluralization |-> Undefined])

\* the dispatch of POST (lines 28-44)
POSTDispatch(text, targetLanguages, preservePlaceholders, outputFormat) ==
    IF outputFormat = Str("json")
    THEN Dispatch("translateJSON",
                  [json |-> text,
                   targetLanguages |-> targetLanguages,
                   preservePlaceholders |-> preservePlaceholders,
                   sourceLanguage |-> Undefined,
                   enablePluralization |-> Undefined])
    ELSE Dispatch("translate",
                  [text |-> text,
                   targetLanguages |-> targetLanguages,
                   preservePlaceholders |-> preservePlaceholders,
                   sourceLanguage |-> Undefined,
                   enablePluralization |-> Undefined])

\* POST handing the sourceLanguage and enablePluralization posted on to the
\* operation
POSTForwardsEverything(body) ==
    IF body = Unparseable THEN caught(Str(JsonSyntaxMessage))
    ELSE IF body.t \in {"null", "undefined"} THEN caught(Str(DestructureMessage))
    ELSE LET text == Prop(body, "text")
             targetLanguages == Prop(body, "targetLanguages")
             d == POSTDispatch(text, targetLanguages,
                               Default(Prop(body, "preservePlaceholders"), Bool(TRUE)),
                               Prop(body, "outputFormat"))
         IN  IF ~Truthy(text)
             THEN Respond(400, Obj([error |-> Str(TextRequiredMessage)]))
             ELSE IF ~Truthy(targetLanguages) \/ OptLength(targetLanguages) = Num(0)
             THEN Respond(400, Obj([error |-> Str(TargetRequiredMessage)]))
             ELSE [d EXCEPT !.args.sourceLanguage = Prop(body, "sourceLanguage"),
                            !.args.enablePluralization =
                                Prop(body, "enablePluralization")]

\* POST reading the body before its try block
POSTParsesOutsideTry(body) ==
    IF body = Unparseable THEN Escaped
    ELSE IF body.t \in {"null", "undefined"} THEN Escaped
    ELSE LET text == Prop(body, "text")
             targetLanguages == Prop(body, "targetLanguages")
         IN  IF ~Truthy(text)
             THEN Respond(400, Obj([error |-> Str(TextRequiredMessage)]))
             ELSE IF ~Truthy(targetLanguages) \/ OptLength(targetLanguages) = Num(0)
             THEN Respond(400, Obj([error |-> Str(TargetRequiredMessage)]))
             ELSE POSTDispatch(text, targetLanguages,
                               Default(Prop(body, "preservePlaceholders"), Bool(TRUE)),
                               Prop(body, "outputFormat"))

\* POST(request) up to its await of the operation (lines 4-44): body is what
\* request.json() finds
POST(body) ==
    IF body = Unparseable THEN caught(Str(JsonSyntaxMessage))
    ELSE IF body.t \in {"null", "undefined"} THEN caught(Str(DestructureMessage))
    ELSE LET text == Prop(body, "text")
             targetLanguages == Prop(body, "targetLanguages")
         IN  IF ~Truthy(text)
             THEN Respond(400, Obj([error |-> Str(TextRequiredMessage)]))
             ELSE IF ~Truthy(targetLanguages) \/ OptLength(targetLanguages) = Num(0)
             THEN Respond(400, Obj([error |-> Str(TargetRequiredMessage)]))
             ELSE POSTDispatch(text, targetLanguages,
                               Default(Prop(body, "preservePlaceholders"), Bool(TRUE)),
                               Prop(body, "outputFormat"))

\* the operation's result sent inside an envelope
POSTAfterWrapsResult(c) ==
    IF c.state = "resolved"
    THEN Respond(200, Obj([result |-> c.value]))
    ELSE caught(c.value)

\* POST from the settling of the operation (lines 46-53)
POSTAfter(c) ==
    IF c.state = "resolved" THEN Respond(200, c.value) ELSE caught(c.value)

\* the JSON bodies posted to the route
InboundTexts == {Undefined, Str(""), Str("Hello"), Obj([a |-> Num(1)])}
InboundTargetLanguages ==
    {Undefined, Null, Arr(<<>>), Arr(<<"es">>), Num(5), Obj([a |-> Num(1)])}
InboundPreserve == {Undefined, Bool(FALSE)}
InboundFormats == {Undefined, Str("json"), Str("plain")}

\* fields of the body the handler does not destructure: none, or a
\* sourceLanguage and an enablePluralization
InboundExtras ==
    {[sourceLanguage |-> Undefined, enablePluralization |-> Undefined],
     [sourceLanguage |-> Str("de"), enablePluralization |-> Bool(FALSE)]}

InboundBodies ==
    {Unparseable, Null} \cup
    {ToJson(Obj([text |-> t, targetLanguages |-> tl,
                 preservePlaceholders |-> pp, outputFormat |-> f] @@ x)) :
        t \in InboundTexts, tl \in InboundTargetLanguages,
        pp \in InboundPreserve, f \in InboundFormats, x \in InboundExtras}

\* a request arrives and the handler runs up to its response or its await;
\* `call` is the library call made for the request at hand (none when the
\* handler made none)
postRequestOf(bodies) ==
    /\ ~window
    /\ proxy.state # "awaiting"
    /\ call.state # "pending"
    /\ \E body \in bodies :
          LET out == POST(body)
          IN  CASE out.kind = "dispatch" ->
                    /\ proxy' = [state |-> "awaiting", inbound |-> body,
                                 responses |-> 0]
                    /\ call' = Start(out.op, "POST", out.args,
                                     IF out.op = "translateJSON"
                                     THEN translateJSON(out.args, testConfig, window, env)
                                     ELSE translate(out.args, testConfig, window, env))
                [] out.kind = "response" ->
                    /\ proxy' = [state |-> "responded", inbound |-> body,
                                 responses |-> 1, response |-> out]
                    /\ call' = NoCall
                [] OTHER ->
                    /\ proxy' = [state |-> "escaped", inbound |-> body,
                                 responses |-> 0]
                    /\ call' = NoCall
    /\ UNCHANGED <<env, window, testConfig, lastCfgOp, got, page, other>>

postRequest == postRequestOf(InboundBodies)

\* the awaited operation has settled and the handler responds
postResume ==
    /\ proxy.state = "awaiting"
    /\ call.state \in {"resolved", "rejected"}
    /\ proxy' = [response |-> POSTAfter(call)]
                @@ [proxy EXCEPT !.state = "responded", !.responses = @ + 1]
    /\ UNCHANGED <<env, window, testConfig, lastCfgOp, got, call, page, other>>

----------------------------------------------------------------------------
(* A second caller: operations of the library invoked while another call   *)
(* may be in flight.  Each invocation has its own locals, held in `other`.  *)

\* an operation invoked by name, up to `await fetch(...)`, whose request
\* carries a number once another call has been made
invokeNumbered(op, a, tc, win, e) ==
    LET c == CASE op = "translate" -> translate(a, tc, win, e)
               [] op = "translateJSON" -> translateJSON(a, tc, win, e)
               [] op = "translateLocaleFile" -> translateLocaleFile(a, tc, win, e)
               [] OTHER -> healthCheck(tc, win, e)
    IN  IF call.state # "none" /\ c.state = "pending"
        THEN [c EXCEPT !.req.url = Str(@.v \o "?n=2")]
        ELSE c

\* an operation invoked by name, up to `await fetch(...)`
invoke(op, a, tc, win, e) ==
    CASE op = "translate" -> translate(a, tc, win, e)
      [] op = "translateJSON" -> translateJSON(a, tc, win, e)
      [] op = "translateLocaleFile" -> translateLocaleFile(a, tc, win, e)
      [] OTHER -> healthCheck(tc, win, e)

NoOptions == [sourceLanguage |-> Undefined, preservePlaceholders |-> Undefined,
              enablePluralization |-> Undefined]

\* what the second caller invokes
OtherCalls ==
    {[op |-> "translate",
      args |-> [text |-> Str("Hello"), targetLanguages |-> tl] @@ NoOptions] :
        tl \in {Arr(<<>>), Arr(<<"es">>)}}
    \cup
    {[op |-> "translateLocaleFile",
      args |-> [content |-> Obj([a |-> Num(1)]), targetLanguages |-> tl]
               @@ NoOptions] :
        tl \in {Arr(<<"es">>), Arr(<<"es", "fr">>)}}

callConcurrently ==
    /\ other.state # "pending"
    /\ \E c \in OtherCalls :
          other' = Start(c.op, "second caller", c.args,
                         invoke(c.op, c.args, testConfig, window, env))
    /\ UNCHANGED <<env, window, testConfig, lastCfgOp, got, call, page, proxy>>

\* the second call ending with what the first call has returned, when it has
\* returned (one response shared by the calls)
otherSettlesShared ==
    /\ other.state = "pending"
    /\ \E resp \in Responses :
          other' = IF call.state = "resolved"
                   THEN [resp |-> resp] @@ Resolve(call.value) @@ other
                   ELSE [resp |-> resp] @@ resume(other, resp) @@ other
    /\ UNCHANGED <<env, window, testConfig, lastCfgOp, got, call, page, proxy>>

\* the transport settles the fetch of the second call, which runs to its end
otherSettles ==
    /\ other.state = "pending"
    /\ \E resp \in Responses :
          other' = [resp |-> resp] @@ resume(other, resp) @@ other
    /\ UNCHANGED <<env, window, testConfig, lastCfgOp, got, call, page, proxy>>

----------------------------------------------------------------------------
(* ApiRouteExample and FileTranslationExample: the pages that post to the  *)
(* proxy route with fetch('/api/translate').                               *)

\* what the fetch of a page settles with: the route's answers, an answer
\* that is not JSON, and the network failing
RouteResponses ==
    {NetworkError,
     HttpResponse(200, Obj([es |-> Str("Hola")])),
     HttpResponse(200, Unparseable),
     HttpResponse(400, Obj([error |-> Str(TextRequiredMessage)])),
     HttpResponse(500, Obj([error |-> Str(MissingKeyMessage)])),
     HttpResponse(500, EmptyObj),
     HttpResponse(500, Null),
     HttpResponse(500, Unparseable)}

\* from the settling of fetch('/api/translate') to the result or the error
\* thrown (api-route/page.js lines 30-35, file-translation/page.js lines 18-22)
routeResult(resp) ==
    IF resp.kind = "error" THEN Reject(resp.message)
    ELSE IF ~Ok(resp)
    THEN IF resp.body = Unparseable THEN Reject(JsonSyntaxMessage)
         ELSE IF resp.body.t \in {"null", "undefined"} THEN Reject(NullPropertyMessage)
         ELSE Reject(ToStr(Or(Prop(resp.body, "error"),
                              Str(TranslationFailedMessage))))
    ELSE responseJson(resp)

\* the request a page posts to the route
routeRequest(body) ==
    [url |-> Str("/api/translate"),
     init |-> Obj([method |-> Str("POST"),
                   headers |-> Obj("Content-Type" :> Str("application/json")),
                   body |-> JSONStringify(body)])]

ApiRouteText == "Hello! This translation goes through our API route."

InitApiRoutePage ==
    [text |-> ApiRouteText, targetLanguage |-> "es", translation |-> Null,
     loading |-> FALSE, error |-> Null, awaiting |-> FALSE, request |-> Undefined]

IsClientSide == "selectedLanguages" \in DOMAIN page /\ "text" \in DOMAIN page
IsApiRoute == "targetLanguage" \in DOMAIN page
IsFileTranslation == "fileContent" \in DOMAIN page

\* onChange of the select
setTargetLanguage ==
    /\ IsApiRoute
    /\ \E value \in {"es", "fr"} : page' = [page EXCEPT !.targetLanguage = value]
    /\ UNCHANGED <<env, window, testConfig, lastCfgOp, got, call, proxy, other>>

\* ApiRouteExample.handleTranslate up to `await fetch(...)`
ApiRouteHandleTranslate ==
    /\ IsApiRoute
    /\ ~page.awaiting
    /\ IF trim(page.text) = ""
       THEN UNCHANGED page
       ELSE page' = [page EXCEPT
                       !.loading = TRUE, !.error = Null, !.awaiting = TRUE,
                       !.request = routeRequest(
                           Obj([text |-> Str(page.text),
                                targetLanguages |-> Arr(<<page.targetLanguage>>)]))]
    /\ UNCHANGED <<env, window, testConfig, lastCfgOp, got, call, proxy, other>>

\* the continuation without its finally block
ApiRouteFetchSettlesNoFinally ==
    /\ IsApiRoute
    /\ page.awaiting
    /\ \E resp \in RouteResponses :
          LET r == routeResult(resp)
          IN  page' = [page EXCEPT
                         !.translation = IF r.state = "resolved" THEN r.value ELSE @,
                         !.error = IF r.state = "rejected" THEN r.value ELSE @,
                         !.loading = IF r.state = "resolved" THEN FALSE ELSE @,
                         !.awaiting = FALSE]
    /\ UNCHANGED <<env, window, testConfig, lastCfgOp, got, call, proxy, other>>

\* ApiRouteExample.handleTranslate from the settling of its fetch to its end:
\* try / catch / finally (lines 30-41)
ApiRouteFetchSettles ==
    /\ IsApiRoute
    /\ page.awaiting
    /\ \E resp \in RouteResponses :
          LET r == routeResult(resp)
          IN  page' = [page EXCEPT
                         !.translation = IF r.state = "resolved" THEN r.value ELSE @,
                         !.error = IF r.state = "rejected" THEN r.value ELSE @,
                         !.loading = FALSE,
                         !.awaiting = FALSE]
    /\ UNCHANGED <<env, window, testConfig, lastCfgOp, got, call, proxy, other>>

MaxReads == 2

\* the files chosen in the file input: name and text
Files ==
    {[name |-> "a.json", result |-> JsonText(Obj([a |-> Num(1)]))],
     [name |-> "b.json", result |-> JsonText(Obj([b |-> Num(2)]))],
     [name |-> "c.json", result |-> Unparseable]}

InvalidFileMessage == "Invalid JSON file"

\* `reads` are the FileReaders that have not fired onload yet
InitFilePage ==
    [fileContent |-> Null, fileName |-> "", selectedLanguages |-> <<"es", "fr">>,
     translations |-> Null, loading |-> FALSE, error |-> Null,
     awaiting |-> FALSE, request |-> Undefined, reads |-> {}]

\* handleFileUpload (lines 45-64): the name is set at once, the content when
\* the reader has read the file
handleFileUpload ==
    /\ IsFileTranslation
    /\ Cardinality(page.reads) < MaxReads
    /\ \E file \in Files :
          page' = [page EXCEPT !.fileName = file.name,
                               !.reads = @ \cup {file}]
    /\ UNCHANGED <<env, window, testConfig, lastCfgOp, got, call, proxy, other>>

\* reader.onload (lines 52-61) of one of the readers
onload ==
    /\ IsFileTranslation
    /\ \E file \in page.reads :
          page' = IF file.result.t = "jsontext"
                  THEN [page EXCEPT !.fileContent = file.result.v,
                                    !.error = Null,
                                    !.reads = @ \ {file}]
                  ELSE [page EXCEPT !.fileContent = Null,
                                    !.error = Str(InvalidFileMessage),
                                    !.reads = @ \ {file}]
    /\ UNCHANGED <<env, window, testConfig, lastCfgOp, got, call, proxy, other>>

\* FileTranslationExample.handleTranslate up to `await translateJSON(...)`,
\* the page's own translateJSON (lines 7-23) up to its fetch included
FileHandleTranslate ==
    /\ IsFileTranslation
    /\ ~page.awaiting
    /\ IF ~Truthy(page.fileContent)
       THEN UNCHANGED page
       ELSE page' = [page EXCEPT
                       !.loading = TRUE, !.error = Null, !.awaiting = TRUE,
                       !.request = routeRequest(
                           Obj([text |-> JSONStringify(page.fileContent),
                                targetLanguages |-> Arr(page.selectedLanguages),
                                preservePlaceholders |-> Bool(TRUE),
                                outputFormat |-> Str("json")]))]
    /\ UNCHANGED <<env, window, testConfig, lastCfgOp, got, call, proxy, other>>

\* FileTranslationExample.handleTranslate from the settling of the fetch to
\* its end (lines 18-22, 78-83)
FileFetchSettles ==
    /\ IsFileTranslation
    /\ page.awaiting
    /\ \E resp \in RouteResponses :
          LET r == routeResult(resp)
          IN  page' = [page EXCEPT
                         !.translations = IF r.state = "resolved" THEN r.value ELSE @,
                         !.error = IF r.state = "rejected" THEN r.value ELSE @,
                         !.loading = FALSE,
                         !.awaiting = FALSE]
    /\ UNCHANGED <<env, window, testConfig, lastCfgOp, got, call, proxy, other>>

----------------------------------------------------------------------------
(* Specifications.                                                         *)

NoCfgOp == [op |-> "none"]

InitWith(environments, contexts) ==
    /\ env \in environments
    /\ window \in contexts
    /\ testConfig = Null
    /\ lastCfgOp = NoCfgOp
    /\ got = Undefined
    /\ call = NoCall
    /\ page = InitPage
    /\ proxy = IdleProxy
    /\ other = NoCall

\* the environments the operations are called in: nothing set; the server's
\* key and URL; both keys and no URL; every variable set but empty
CallEnvs ==
    {[SHIPI18N_API_KEY |-> Undefined, SHIPI18N_API_URL |-> Undefined,
      NEXT_PUBLIC_SHIPI18N_API_KEY |-> Undefined,
      NEXT_PUBLIC_SHIPI18N_API_URL |-> Undefined],
     [SHIPI18N_API_KEY |-> Str("sk_server"),
      SHIPI18N_API_URL |-> Str("https://server.example"),
      NEXT_PUBLIC_SHIPI18N_API_KEY |-> Undefined,
      NEXT_PUBLIC_SHIPI18N_API_URL |-> Undefined],
     [SHIPI18N_API_KEY |-> Str("sk_server"), SHIPI18N_API_URL |-> Undefined,
      NEXT_PUBLIC_SHIPI18N_API_KEY |-> Str("pk_public"),
      NEXT_PUBLIC_SHIPI18N_API_URL |-> Undefined],
     [SHIPI18N_API_KEY |-> Str(""), SHIPI18N_API_URL |-> Str(""),
      NEXT_PUBLIC_SHIPI18N_API_KEY |-> Str(""),
      NEXT_PUBLIC_SHIPI18N_API_URL |-> Str("")]}

\* the library called directly, in either context
Init == InitWith(CallEnvs, BOOLEAN)

Next ==
    \/ setConfig
    \/ resetConfig
    \/ callApiRequest
    \/ callTranslate
    \/ callTranslateJSON
    \/ callTranslateLocaleFile
    \/ callHealthCheck
    \/ fetchSettles

Spec == Init /\ [][Next]_vars

\* the configuration alone, in every environment
InitConfig == InitWith(Envs, BOOLEAN)

NextConfig == setConfig \/ resetConfig \/ callGetConfig

SpecConfig == InitConfig /\ [][NextConfig]_vars

\* the client-side page in the browser
InitBrowser == InitWith(CallEnvs, {TRUE})

NextBrowser ==
    \/ setText
    \/ toggleLanguage
    \/ handleTranslate
    \/ handleTranslateResume
    \/ fetchSettles

SpecBrowser == InitBrowser /\ [][NextBrowser]_vars

\* the three interactive pages in a browser with the public key: one of them
\* is open
PageEnvs == {e \in CallEnvs : e.NEXT_PUBLIC_SHIPI18N_API_KEY = Str("pk_public")}

InitPages ==
    /\ env \in PageEnvs
    /\ window = TRUE
    /\ testConfig = Null
    /\ lastCfgOp = NoCfgOp
    /\ got = Undefined
    /\ call = NoCall
    /\ page \in {InitPage, InitApiRoutePage, InitFilePage}
    /\ proxy = IdleProxy
    /\ other = NoCall

NextPages ==
    \/ ~IsFileTranslation /\ setText
    \/ IsClientSide /\ handleTranslate
    \/ IsClientSide /\ fetchSettles
    \/ IsClientSide /\ handleTranslateResume
    \/ setTargetLanguage
    \/ ApiRouteHandleTranslate
    \/ ApiRouteFetchSettles
    \/ handleFileUpload
    \/ onload
    \/ FileHandleTranslate
    \/ FileFetchSettles

SpecPages == InitPages /\ [][NextPages]_vars

\* the pages when every fetch settles and every continuation runs
SpecPagesFair ==
    /\ SpecPages
    /\ WF_vars(IsClientSide /\ fetchSettles)
    /\ WF_vars(IsClientSide /\ handleTranslateResume)
    /\ WF_vars(ApiRouteFetchSettles)
    /\ WF_vars(FileFetchSettles)

\* the proxy route on the server, with and without the server's key
ProxyEnvs ==
    {e \in CallEnvs : e.NEXT_PUBLIC_SHIPI18N_API_KEY = Undefined}

InitProxy == InitWith(ProxyEnvs, {FALSE})

NextProxy ==
    \/ postRequest
    \/ fetchSettles
    \/ postResume

SpecProxy == InitProxy /\ [][NextProxy]_vars

\* what runs on the server, in the environment with the server's key and
\* URL: the override is set and reset at any time, and a run reads the
\* configuration with getConfig, or calls the library's operations, or
\* serves requests posted to the proxy route
ServerEnvs ==
    {e \in CallEnvs : e.SHIPI18N_API_URL = Str("https://server.example")}

InitServer == InitWith(ServerEnvs, {FALSE})

\* the bodies posted there: not JSON, without text, for translate and for
\* translateJSON
ServerBodies ==
    {Unparseable,
     Obj([targetLanguages |-> Arr(<<"es">>)]),
     Obj([text |-> Str("Hello"), targetLanguages |-> Arr(<<"es">>)]),
     Obj([text |-> Str("Hello"), targetLanguages |-> Arr(<<"es">>),
          outputFormat |-> Str("json")])}

NoOperationYet == call.state = "none" /\ proxy.state = "idle"
LibraryRun == got = Undefined /\ proxy.state = "idle"

NextServer ==
    \/ setConfig
    \/ resetConfig
    \/ NoOperationYet /\ callGetConfig
    \/ LibraryRun /\ callApiRequest
    \/ LibraryRun /\ callTranslate
    \/ LibraryRun /\ callTranslateJSON
    \/ LibraryRun /\ callTranslateLocaleFile
    \/ LibraryRun /\ callHealthCheck
    \/ LibraryRun /\ callGetTranslations
    \/ fetchSettles
    \/ postRequestOf(ServerBodies)
    \/ postResume

SpecServer == InitServer /\ [][NextServer]_vars

\* two callers of the library on the server under a configuration that stays
\* as it is (with and without the server's key), their calls interleaved
InitConcurrent == InitWith(ProxyEnvs, {FALSE})

NextConcurrent ==
    \/ callTranslate
    \/ callTranslateLocaleFile
    \/ fetchSettles
    \/ callConcurrently
    \/ otherSettles

SpecConcurrent == InitConcurrent /\ [][NextConcurrent]_vars

----------------------------------------------------------------------------
(* Properties.                                                             *)

\* the operations that reach the transport through apiRequest
GatewayOps == {"apiRequest", "translate", "translateJSON", "translateLocaleFile"}

Called == call.state # "none"

\* targetLanguages is missing or an empty list
EmptyOrMissing(tl) == tl = Undefined \/ tl = Arr(<<>>)

\* the arguments of the call c satisfy the input rules of the spec
ValidInput(c) ==
    CASE c.op = "translate" ->
            Truthy(c.args.text) /\ ~EmptyOrMissing(c.args.targetLanguages)
      [] c.op \in {"translateJSON", "translateLocaleFile"} ->
            ~EmptyOrMissing(c.args.targetLanguages)
      [] OTHER -> TRUE

FailedWith(c, message) == c.state = "rejected" /\ c.value = Str(message)

\* the headers of the request the call c sent
SentHeaders(c) == Prop(c.req.init, "headers")

\* C1: whenever the configuration apiRequest resolves has a falsy apiKey,
\* the call fails with the missing-API-key error and called fetch zero times.
C1_MissingKeyFailsBeforeFetch ==
    (/\ Called
     /\ call.op \in GatewayOps
     /\ call.cfg # Undefined
     /\ ~Truthy(Prop(call.cfg, "apiKey")))
    => (FailedWith(call, MissingKeyMessage) /\ call.fetches = 0
        /\ call.req = Undefined)

C1_Witness ==
    /\ Called
    /\ call.op = "apiRequest"
    /\ Prop(call.cfg, "apiKey") = Str("")
    /\ FailedWith(call, MissingKeyMessage)
    /\ call.fetches = 0

\* C2: with no API key configured, translate, translateJSON,
\* translateLocaleFile and healthCheck, called with valid input, fail with
\* the configuration error and call fetch zero times.
C2_NoKeyNoOperation ==
    (/\ Called
     /\ call.op \in {"translate", "translateJSON", "translateLocaleFile",
                     "healthCheck"}
     /\ ValidInput(call)
     /\ ~Truthy(Prop(call.cfg, "apiKey")))
    => (FailedWith(call, MissingKeyMessage) /\ call.fetches = 0)

\* C3: translate fails with 'Text is required' when text is empty or
\* missing, and (text given) with 'At least one target language is required'
\* when targetLanguages is empty or missing; fetch is called zero times.
C3_TranslateValidates ==
    (Called /\ call.op = "translate")
    => /\ ~Truthy(call.args.text)
            => (FailedWith(call, TextRequiredMessage) /\ call.fetches = 0)
       /\ (Truthy(call.args.text) /\ EmptyOrMissing(call.args.targetLanguages))
            => (FailedWith(call, TargetRequiredMessage) /\ call.fetches = 0)

C3_Witness ==
    /\ Called
    /\ call.op = "translate"
    /\ call.args.text = Str("Hello")
    /\ call.args.targetLanguages = Arr(<<>>)
    /\ Truthy(Prop(getConfig(testConfig, window, env), "apiKey"))
    /\ FailedWith(call, TargetRequiredMessage)
    /\ call.fetches = 0

\* C4: translateJSON and translateLocaleFile, called with empty or missing
\* targetLanguages (and an API key configured, so that no other failure
\* comes first), fail with the target-language validation error and call
\* fetch zero times.
C4_JsonValidatesLanguages ==
    (/\ Called
     /\ call.op \in {"translateJSON", "translateLocaleFile"}
     /\ EmptyOrMissing(call.args.targetLanguages)
     /\ Truthy(Prop(call.cfg, "apiKey")))
    => (FailedWith(call, TargetRequiredMessage) /\ call.fetches = 0)

\* C5: the X-API-Key header of every request apiRequest sends is the apiKey
\* of the resolved configuration, whatever headers the caller gave; on every
\* other header the caller's value wins.
C5_AuthHeaderIsConfiguredKey ==
    (Called /\ call.op = "apiRequest" /\ call.req # Undefined)
    => LET given == Prop(call.args.options, "headers")
           sent == SentHeaders(call)
       IN  /\ Prop(sent, "X-API-Key") = Prop(call.cfg, "apiKey")
           /\ given.t = "object" =>
                \A k \in DOMAIN given.v \ {"X-API-Key"} :
                    Prop(sent, k) = given.v[k]

\* C6: with an API key configured, every request an operation sends, the
\* POST to /api/translate and the GET to /api/health alike, carries an
\* X-API-Key header equal to the configured key.
C6_EveryRequestCarriesKey ==
    (/\ Called
     /\ call.op \in {"translate", "translateJSON", "translateLocaleFile",
                     "healthCheck"}
     /\ call.req # Undefined
     /\ Truthy(Prop(call.cfg, "apiKey")))
    => LET sent == SentHeaders(call)
       IN  /\ sent.t = "object"
           /\ "X-API-Key" \in DOMAIN sent.v
           /\ sent.v["X-API-Key"] = Prop(call.cfg, "apiKey")

\* C7: no component running in the browser has a call of the library reach
\* the transport: the pages translate through POST /api/translate only.
C7_BrowserNeverCallsExternalApi ==
    (Called /\ window /\ call.by = "ClientSideExample") => call.fetches = 0

ServerNames == {"SHIPI18N_API_KEY", "SHIPI18N_API_URL"}
PublicNames == {"NEXT_PUBLIC_SHIPI18N_API_KEY", "NEXT_PUBLIC_SHIPI18N_API_URL"}

\* C8: with no override, getConfig in the browser depends only on the
\* NEXT_PUBLIC_ variables and in the server only on the unprefixed ones:
\* environments that agree on the context's own variables give one result.
C8_ContextReadsOnlyItsVariables ==
    testConfig = Null =>
        \A e2 \in Envs :
            (\A n \in (IF window THEN PublicNames ELSE ServerNames) :
                e2[n] = env[n])
            => getConfig(testConfig, window, e2) = getConfig(testConfig, window, env)

C8_Witness ==
    /\ window
    /\ testConfig = Null
    /\ env.SHIPI18N_API_KEY = Str("sk_server")
    /\ env.NEXT_PUBLIC_SHIPI18N_API_KEY = Undefined
    /\ got = getConfig(testConfig, window, env)
    /\ Prop(got, "apiKey") = Undefined

\* the configuration the environment gives in the context win
EnvironmentConfig(win, e) ==
    LET key == IF win THEN e.NEXT_PUBLIC_SHIPI18N_API_KEY ELSE e.SHIPI18N_API_KEY
        url == IF win THEN e.NEXT_PUBLIC_SHIPI18N_API_URL ELSE e.SHIPI18N_API_URL
    IN  Obj([apiKey |-> key,
             apiUrl |-> IF url \in {Undefined, Str("")} THEN Str(DefaultApiUrl)
                        ELSE url])

\* C9: after any sequence of setConfig and resetConfig, getConfig returns the
\* argument of the most recent setConfig when no resetConfig followed it,
\* and the configuration of the environment otherwise.
C9_LastWriteWins ==
    getConfig(testConfig, window, env) =
        IF lastCfgOp.op = "setConfig" THEN lastCfgOp.arg
        ELSE EnvironmentConfig(window, env)

C9_Witness ==
    /\ lastCfgOp.op = "setConfig"
    /\ got = lastCfgOp.arg
    /\ got = getConfig(testConfig, window, env)
    /\ Truthy(env.SHIPI18N_API_KEY)
    /\ ~window
    /\ got # EnvironmentConfig(window, env)

\* C10 as stated: in every reachable configuration state, override set or
\* not, the apiUrl getConfig returns is non-empty.
C10_ApiUrlNeverEmpty ==
    Truthy(Prop(getConfig(testConfig, window, env), "apiUrl"))

\* C10 as amended: with no override set, in either context, the apiUrl
\* getConfig returns is non-empty: the context's configured URL, or the
\* default constant when that URL is unset or empty.
C10_ApiUrlDefaultsWithoutOverride ==
    testConfig = Null =>
        LET url == IF window THEN env.NEXT_PUBLIC_SHIPI18N_API_URL
                   ELSE env.SHIPI18N_API_URL
            apiUrl == Prop(getConfig(testConfig, window, env), "apiUrl")
        IN  /\ Truthy(apiUrl)
            /\ apiUrl = IF url \in {Undefined, Str("")} THEN Str(DefaultApiUrl)
                        ELSE url

C10_Witness ==
    /\ testConfig = Null
    /\ lastCfgOp.op = "resetConfig"
    /\ ~window
    /\ env.SHIPI18N_API_URL = Str("")
    /\ got = getConfig(testConfig, window, env)
    /\ Prop(got, "apiUrl") = Str(DefaultApiUrl)

\* the body of the request the call c sent, parsed
SentBody(c) == Prop(c.req.init, "body").v

\* C11: for non-empty text and targetLanguages, translate posts to
\* /translate a body of exactly text, sourceLanguage, targetLanguages,
\* preservePlaceholders and enablePluralization, where a sourceLanguage left
\* out is "en", preservePlaceholders and enablePluralization left out are
\* true, and the values given are sent unchanged.
C11_TranslateBody ==
    (Called /\ call.op = "translate" /\ call.req # Undefined)
    => LET a == call.args
           sent == SentBody(call)
       IN  /\ call.req.url = Str(ToStr(Prop(call.cfg, "apiUrl")) \o "/api/translate")
           /\ Prop(call.req.init, "method") = Str("POST")
           /\ Prop(call.req.init, "body").t = "jsontext"
           /\ DOMAIN sent.v = {"text", "sourceLanguage", "targetLanguages",
                               "preservePlaceholders", "enablePluralization"}
           /\ sent.v.text = a.text
           /\ sent.v.targetLanguages = a.targetLanguages
           /\ sent.v.sourceLanguage =
                IF a.sourceLanguage = Undefined THEN Str("en") ELSE a.sourceLanguage
           /\ sent.v.preservePlaceholders =
                IF a.preservePlaceholders = Undefined THEN Bool(TRUE)
                ELSE a.preservePlaceholders
           /\ sent.v.enablePluralization =
                IF a.enablePluralization = Undefined THEN Bool(TRUE)
                ELSE a.enablePluralization

C11_Witness ==
    /\ Called
    /\ call.op = "translate"
    /\ call.req # Undefined
    /\ call.args.sourceLanguage = Undefined
    /\ call.args.preservePlaceholders = Undefined
    /\ call.args.enablePluralization = Undefined
    /\ SentBody(call).v.sourceLanguage = Str("en")
    /\ SentBody(call).v.preservePlaceholders = Bool(TRUE)
    /\ SentBody(call).v.enablePluralization = Bool(TRUE)

\* C12: the body translateJSON sends has as text the input itself when json
\* is a string and the JSON serialisation of json otherwise, and its
\* outputFormat is "json".
C12_TranslateJSONBody ==
    (Called /\ call.op = "translateJSON" /\ call.req # Undefined)
    => LET json == call.args.json
           sent == SentBody(call)
       IN  /\ Prop(sent, "outputFormat") = Str("json")
           /\ Prop(sent, "text") =
                IF json.t \in {"string", "jsontext"} THEN json ELSE JsonText(json)

C12_Witness ==
    /\ Called
    /\ call.op = "translateJSON"
    /\ call.req # Undefined
    /\ call.args.json = Obj([a |-> Num(1)])
    /\ Prop(SentBody(call), "text") = JsonText(Obj([a |-> Num(1)]))
    /\ Prop(SentBody(call), "outputFormat") = Str("json")

\* the call has come to its end after the transport answered
Settled == Called /\ call.state \in {"resolved", "rejected"} /\ call.fetches = 1

\* the transport answered with a success status and a body that is an object
SuccessObject(resp) ==
    resp.kind = "response" /\ Ok(resp) /\ resp.body.t = "object"

Elements(seq) == {seq[i] : i \in DOMAIN seq}

\* C13: translateLocaleFile returns a mapping whose keys are exactly the
\* requested languages that are keys of the response, each with the
\* response's value; every other key of the response is dropped and a
\* requested language absent from the response is not a key.
C13_LocaleFileProjectsOnRequested ==
    (/\ Settled
     /\ call.op = "translateLocaleFile"
     /\ call.args.targetLanguages.t = "array"
     /\ SuccessObject(call.resp))
    => LET body == call.resp.body.v
           requested == Elements(call.args.targetLanguages.v)
       IN  /\ call.state = "resolved"
           /\ call.value.t = "object"
           /\ DOMAIN call.value.v = requested \cap DOMAIN body
           /\ \A l \in DOMAIN call.value.v : call.value.v[l] = body[l]

\* C14: for every non-success response, whatever its body, apiRequest fails
\* with the body's message field when it has one and with
\* "API error: <status>" otherwise; an unparseable body counts as empty.
C14_NonSuccessMessage ==
    (/\ Settled
     /\ call.op \in {"apiRequest", "translate", "translateJSON"}
     /\ call.resp.kind = "response"
     /\ ~Ok(call.resp))
    => LET body == call.resp.body
       IN  /\ call.state = "rejected"
           /\ call.value =
                IF body.t = "object" /\ "message" \in DOMAIN body.v
                THEN body.v.message
                ELSE Str("API error: " \o ToString(call.resp.status))

----------------------------------------------------------------------------
(* The proxy endpoint.                                                     *)

\* a request has been posted and its body is valid JSON
Posted == proxy.state # "idle" /\ proxy.inbound # Unparseable

Responded == proxy.state = "responded"

\* a field of the body posted
Inbound(name) == Prop(proxy.inbound, name)

\* the response of status `status` whose body is {error: message}
ErrorResponse(status, message) ==
    [kind |-> "response", status |-> status, body |-> Obj([error |-> Str(message)])]

\* the calls of fetch made for the request at hand
OutboundCalls == IF Called THEN call.fetches ELSE 0

NonEmptySequence(x) == x.t = "array" /\ Len(x.v) > 0

\* C15: whenever the text posted is missing or empty, whatever
\* targetLanguages is, the proxy responds 400 with
\* {error: "Text is required"} and calls fetch zero times.
C15_MissingTextIs400 ==
    (Posted /\ ~Truthy(Inbound("text")))
        => /\ Responded
           /\ proxy.response = ErrorResponse(400, TextRequiredMessage)
           /\ OutboundCalls = 0

\* C16: whenever the text posted is present and targetLanguages is not a
\* non-empty sequence (missing, null, an empty list, a number, an object),
\* the response of the proxy is 400 with
\* {error: "At least one target language is required"} and fetch was called
\* zero times.
C16_BadTargetLanguagesIs400 ==
    (Posted /\ Responded /\ Truthy(Inbound("text"))
            /\ ~NonEmptySequence(Inbound("targetLanguages")))
        => /\ proxy.response = ErrorResponse(400, TargetRequiredMessage)
           /\ OutboundCalls = 0

\* C17: the operation the proxy calls is translateJSON, with the text posted
\* as its json argument and "json" as the outputFormat it sends, exactly when
\* the outputFormat posted is the string "json"; for every other outputFormat
\* and for none it is translate, with the text posted as its text.
C17_DispatchOnOutputFormat ==
    (Posted /\ Called)
        => /\ call.by = "POST"
           /\ call.op \in {"translate", "translateJSON"}
           /\ (call.op = "translateJSON") <=> (Inbound("outputFormat") = Str("json"))
           /\ call.op = "translateJSON" =>
                 /\ call.args.json = Inbound("text")
                 /\ call.fetches = 1 =>
                       /\ Prop(SentBody(call), "outputFormat") = Str("json")
                       /\ TypeOf(Inbound("text")) = "string" =>
                             Prop(SentBody(call), "text") = Inbound("text")
           /\ call.op = "translate" =>
                 /\ call.args.text = Inbound("text")
                 /\ call.fetches = 1 =>
                       Prop(SentBody(call), "outputFormat") = Undefined

C17_Witness ==
    /\ proxy.state = "awaiting"
    /\ Inbound("outputFormat") = Str("json")
    /\ call.op = "translateJSON"
    /\ call.state = "pending"
    /\ Prop(SentBody(call), "text") = Str("Hello")

\* C18: whenever the operation the proxy called succeeds, the proxy responds
\* 200 with a body equal to the operation's result, and that result is the
\* body the external API answered with a success status.
C18_SuccessIsRelayed ==
    (Responded /\ Called /\ call.state = "resolved")
        => /\ proxy.response.status = 200
           /\ proxy.response.body = call.value
           /\ call.resp.kind = "response"
           /\ Ok(call.resp)
           /\ call.value = call.resp.body

C18_Witness ==
    /\ Responded
    /\ Called
    /\ call.state = "resolved"
    /\ call.resp.body.t = "object"
    /\ proxy.response.body = call.resp.body

\* C19: whenever the operation the proxy called throws (no key, the
\* transport failing, a non-success status of the external API, the
\* operation's own checks), the proxy responds 500 with {error: m}, m being
\* the message thrown, or "Translation failed" when that message is empty;
\* the status the external API answered with is not the status of the
\* response.
C19_FailureIs500 ==
    (Responded /\ Called /\ call.state = "rejected")
        => /\ proxy.response.status = 500
           /\ proxy.response.body =
                 Obj([error |-> IF call.value = Str("")
                                THEN Str(TranslationFailedMessage)
                                ELSE call.value])

C19_Witness ==
    /\ Responded
    /\ Called
    /\ call.state = "rejected"
    /\ call.fetches = 1
    /\ call.resp.kind = "response"
    /\ call.resp.status = 401
    /\ proxy.response = ErrorResponse(500, "Invalid API key")

\* C20: no exception leaves the handler; a request that has not been answered
\* has no response and an answered one has exactly one, of status 200, 400 or
\* 500; a 400 response comes only from the check of text or the check of
\* targetLanguages, without any operation called.
C20_OneResponseNoEscape ==
    /\ proxy.state # "escaped"
    /\ proxy.state = "awaiting" => proxy.responses = 0
    /\ Responded =>
          /\ proxy.responses = 1
          /\ proxy.response.status \in {200, 400, 500}
          /\ proxy.response.status = 400 =>
                /\ ~Called
                /\ \/ /\ ~Truthy(Inbound("text"))
                      /\ proxy.response = ErrorResponse(400, TextRequiredMessage)
                   \/ /\ Truthy(Inbound("text"))
                      /\ ~NonEmptySequence(Inbound("targetLanguages"))
                      /\ proxy.response = ErrorResponse(400, TargetRequiredMessage)

C20_Witness ==
    /\ Responded
    /\ proxy.inbound = Unparseable
    /\ proxy.responses = 1
    /\ proxy.response = ErrorResponse(500, JsonSyntaxMessage)

----------------------------------------------------------------------------
(* Calls of the transport, hidden state, concurrency.                      *)

TranslationOps == {"translate", "translateJSON", "translateLocaleFile"}

\* the transport has answered the call
Answered == Called /\ "resp" \in DOMAIN call

\* C21: a call of translate, translateJSON or translateLocaleFile has called
\* fetch at most once, and exactly once when its input is valid and an API
\* key is configured; once the transport has answered, with a failure or a
\* non-success status included, the call has ended and fetch was called once
\* (no retry).
C21_AtMostOneFetch ==
    (Called /\ call.op \in TranslationOps)
        => /\ call.fetches \in {0, 1}
           /\ (ValidInput(call) /\ Truthy(Prop(call.cfg, "apiKey")))
                 => call.fetches = 1
           /\ Answered => /\ call.state \in {"resolved", "rejected"}
                          /\ call.fetches = 1

C21_Witness ==
    /\ Answered
    /\ call.op = "translate"
    /\ call.resp.kind = "response"
    /\ call.resp.status = 401
    /\ call.state = "rejected"
    /\ call.fetches = 1

\* C23: a step changes the override only if it is setConfig or resetConfig,
\* the new override being the argument of setConfig or null: getConfig, the
\* library's operations from their call to their end, getTranslations and
\* the proxy handler leave it as it is, whether they succeed or fail.
C23_OnlySetAndResetWrite ==
    [][testConfig' # testConfig =>
          /\ lastCfgOp'.op \in {"setConfig", "resetConfig"}
          /\ lastCfgOp'.op = "setConfig" => testConfig' = lastCfgOp'.arg
          /\ lastCfgOp'.op = "resetConfig" => testConfig' = Null
          /\ UNCHANGED <<got, call, proxy, other>>]_vars

\* an operation has failed and a request has been answered 500 while an
\* override is set
C23_Witness ==
    /\ testConfig # Null
    /\ proxy.state = "responded"
    /\ proxy.response.status = 500
    /\ call.state = "rejected"
    /\ got # Undefined

\* what the call c ended with
Outcome(c) == [state |-> c.state, value |-> c.value]

\* the transport has answered the call c
AnsweredCall(c) == c.state # "none" /\ "resp" \in DOMAIN c

OwnRequest(c) == invoke(c.op, c.args, testConfig, window, env).req

C25_ConfigReadOnceAtInvocation ==
    [][/\ call.state = "pending" =>
             /\ call'.op = call.op
             /\ call'.cfg = call.cfg
             /\ call'.req = call.req
             /\ call'.state # "pending" => Outcome(call') = resume(call, call'.resp)
       /\ (call.state # "pending" /\ call' # call /\ call'.cfg # Undefined) =>
             /\ call'.cfg = getConfig(testConfig, window, env)
             /\ call'.state = "pending" =>
                   /\ call'.req.url.v =
                         ToStr(Prop(call'.cfg, "apiUrl"))
                            \o (IF call'.op = "healthCheck"
                                THEN "/api/health" ELSE "/api/translate")
                   /\ call'.op \in TranslationOps =>
                         Prop(SentHeaders(call'), "X-API-Key") =
                            Prop(call'.cfg, "apiKey")
      ]_vars

\* a call has ended under a configuration that is no longer the one in force
C25_Witness ==
    /\ AnsweredCall(call)
    /\ call.state = "resolved"
    /\ call.op \in TranslationOps
    /\ lastCfgOp.op = "setConfig"
    /\ call.cfg # getConfig(testConfig, window, env)
    /\ Prop(SentHeaders(call), "X-API-Key") # Prop(testConfig, "apiKey")

----------------------------------------------------------------------------
(* Order of the checks, defaults behind the proxy, healthCheck.            *)

\* C26: translate checks text, then targetLanguages, then the API key: with
\* an empty or missing text it fails with 'Text is required' (also when
\* targetLanguages is empty and no key is configured), with a text and an
\* empty or missing targetLanguages with the target-language error (also
\* without a key), in both cases without having read the configuration; with
\* both given it reads the configuration, and fails with the missing-key
\* error when that has no key.
C26_TranslateCheckOrder ==
    (Called /\ call.op = "translate")
        => /\ ~Truthy(call.args.text) =>
                 /\ FailedWith(call, TextRequiredMessage)
                 /\ call.cfg = Undefined
           /\ (Truthy(call.args.text) /\ EmptyOrMissing(call.args.targetLanguages)) =>
                 /\ FailedWith(call, TargetRequiredMessage)
                 /\ call.cfg = Undefined
           /\ (Truthy(call.args.text) /\ ~EmptyOrMissing(call.args.targetLanguages)) =>
                 /\ call.cfg # Undefined
                 /\ ~Truthy(Prop(call.cfg, "apiKey")) =>
                       FailedWith(call, MissingKeyMessage)

\* empty text, empty targetLanguages and no key: the failure is the text's
C26_Witness ==
    /\ Called
    /\ call.op = "translate"
    /\ call.args.text = Str("")
    /\ call.args.targetLanguages = Arr(<<>>)
    /\ testConfig = Null
    /\ lastCfgOp = NoCfgOp
    /\ ~Truthy(Prop(getConfig(testConfig, window, env), "apiKey"))
    /\ FailedWith(call, TextRequiredMessage)
    /\ call.cfg = Undefined

\* the body posted without the fields the handler does not destructure
Destructured(body) ==
    ToJson(Obj([text |-> Prop(body, "text"),
                targetLanguages |-> Prop(body, "targetLanguages"),
                preservePlaceholders |-> Prop(body, "preservePlaceholders"),
                outputFormat |-> Prop(body, "outputFormat")]))

\* C27: every request sent for a request posted to the proxy has
\* sourceLanguage "en" and enablePluralization true in its body, and is the
\* request sent for the body posted without its sourceLanguage and
\* enablePluralization: only text, targetLanguages, preservePlaceholders and
\* outputFormat reach it.
C27_ProxyFixesLanguageAndPlurals ==
    (Posted /\ Called /\ call.fetches = 1)
        => /\ Prop(SentBody(call), "sourceLanguage") = Str("en")
           /\ Prop(SentBody(call), "enablePluralization") = Bool(TRUE)
           /\ LET d == POST(Destructured(proxy.inbound))
              IN  /\ d.kind = "dispatch"
                  /\ d.op = call.op
                  /\ call.req = invoke(d.op, d.args, testConfig, window, env).req

C27_Witness ==
    /\ Posted
    /\ Called
    /\ call.state = "pending"
    /\ Inbound("sourceLanguage") = Str("de")
    /\ Inbound("enablePluralization") = Bool(FALSE)
    /\ Prop(SentBody(call), "sourceLanguage") = Str("en")
    /\ Prop(SentBody(call), "enablePluralization") = Bool(TRUE)

\* C28: when the transport answers healthCheck with a non-success status and
\* a body that is JSON, healthCheck returns that body parsed, as it does for
\* a success status, and does not fail.
C28_HealthCheckIgnoresStatus ==
    (/\ AnsweredCall(call)
     /\ call.op = "healthCheck"
     /\ call.resp.kind = "response"
     /\ ~Ok(call.resp)
     /\ call.resp.body # Unparseable)
        => /\ call.state = "resolved"
           /\ call.value = call.resp.body
           /\ Outcome(call) = healthCheckResume(HttpResponse(200, call.resp.body))

C28_Witness ==
    /\ AnsweredCall(call)
    /\ call.op = "healthCheck"
    /\ call.resp.kind = "response"
    /\ call.resp.status = 401
    /\ call.state = "resolved"
    /\ call.value = Obj([message |-> Str("Invalid API key")])

----------------------------------------------------------------------------
(* The interactive pages.                                                  *)

\* C29: in ClientSideExample, ApiRouteExample and FileTranslationExample,
\* loading is true exactly while a request started by handleTranslate is in
\* flight; the step that starts a request sets loading and clears the error;
\* the step in which the request settles, with a result or with an error,
\* sets loading to false; and, every request settling, a page that is
\* loading is later not loading.
C29_LoadingWhileInFlight ==
    /\ [](page.loading <=> page.awaiting)
    /\ [][(~page.awaiting /\ page'.awaiting)
             => (page'.loading /\ page'.error = Null)]_vars
    /\ [][(page.awaiting /\ ~page'.awaiting) => ~page'.loading]_vars
    /\ (page.loading ~> ~page.loading)

\* a second attempt is in flight after a failed one, in ApiRouteExample
C29_Witness ==
    /\ IsApiRoute
    /\ page.loading
    /\ page.awaiting
    /\ page.error = Null
    /\ page.translation # Null
    /\ page.targetLanguage = "fr"

\* the file of that name among the files of the model
FileNamed(name) == CHOOSE file \in Files : file.name = name

\* C30: in FileTranslationExample, when a file has been chosen, no reader is
\* still reading and no translation has been started, fileContent is the
\* parsed content of the file named by fileName, or is null with the error
\* 'Invalid JSON file' when that file is not JSON.
C30_ContentMatchesFileName ==
    (/\ IsFileTranslation
     /\ page.fileName # ""
     /\ page.reads = {}
     /\ page.request = Undefined)
        => LET file == FileNamed(page.fileName)
           IN  IF file.result.t = "jsontext"
               THEN page.fileContent = file.result.v
               ELSE /\ page.fileContent = Null
                    /\ page.error = Str(InvalidFileMessage)

====
